---- MODULE Spec2Model ----
(***************************************************************************)
(* Offline-first task synchronisation engine.                              *)
(*                                                                         *)
(* State: the three tables of the local store (tasks, sync_queue,          *)
(* dead_letter_queue), the wall clock, and the position of the one sync()  *)
(* pass that may be running.  sync() is an async function: it is split at  *)
(* its awaits into the steps SyncStart, MarkInProgress, ProcessBatch,      *)
(* ProcessOutcome, EndResponse, HandleError and SyncReturn, so that the     *)
(* TaskService operations can interleave with a running pass.              *)
(*                                                                         *)
(* The remote authority is modelled by the wire contract: a batch call     *)
(* either throws or answers every submitted item with one outcome whose    *)
(* client_id is the item's task_id, in any order.                          *)
(***************************************************************************)
EXTENDS Integers, Sequences, FiniteSets, TLC

\* ------------------------------------------------------------------ bounds
MaxTasks == 2
MaxEntries == 2
MaxTime == 1
MaxHostilePasses == 2
\* The retry scenario: entries in its one batch, passes made over them.
RetryEntries == 3
MaxPasses == 4
\* The passes two overlapping invocations of sync() make between them.
MaxTwoPasses == 4
\* The items of the batch a checksum is computed over.
MaxBatch == 2
\* The outcomes of a pass that answer no item of their batch, and the passes
\* made with such a remote.
MaxForeign == 1
MaxForeignPasses == 1

\* ------------------------------------------------------- program constants
MAX_RETRY_COUNT == 3
\* SYNC_BATCH_SIZE = parseInt(process.env.SYNC_BATCH_SIZE || '10', 10) is read
\* once, when the module is loaded: the default, and two values the
\* environment may set that make a pass over the bounded queue span batches.
DefaultBatchSize == 10
BatchSizes == {1, 2, DefaultBatchSize}

TaskIds == 1..MaxTasks
EntryIds == 1..MaxEntries
\* The title a task is created with, and the fields PUT /tasks/:id sends.
NewTitles == {"a"}
Edits == {[title |-> "b", completed |-> TRUE]}

Min(a, b) == IF a < b THEN a ELSE b

\* ----------------------------------------------------------- conversions
\* Date.toISOString() and new Date(iso): a Date holds integer milliseconds
\* and the ISO form keeps all of them, tagged here so that a stored string
\* is never used as a number without being parsed.
ToISOString(t) == <<"iso", t>>
ParseDate(s) == s[2]
\* SQLite compares the fixed-width ISO strings lexicographically.
IsoLeq(a, b) == a[2] <= b[2]

\* --------------------------------------------------------------- values
NoRow == [absent |-> TRUE]
Null == [null |-> TRUE]
NoData == [nodata |-> TRUE]
NoServerId == 0
ServerIds == {1}
NoError == ""

OP_PRIORITY(op) ==
  CASE op = "create" -> 1
    [] op = "update" -> 2
    [] op = "delete" -> 3

VARIABLES
  SYNC_BATCH_SIZE, \* the configured batch size, fixed at start
  tasks,        \* table tasks: id -> row, NoRow where no row exists
  queue,        \* table sync_queue, in rowid (insertion) order
  dlq,          \* table dead_letter_queue, in insertion order
  now,          \* the wall clock, in milliseconds
  nextId,       \* number of queue entries created so far (their uuids)
  pc,           \* position of the running pass: idle, mark, send, resp, fail, done
  sorted,       \* the pass's ordered snapshot (local `sorted`)
  i,            \* 1-based index in sorted of the current batch's first item
  k,            \* 1-based index in the batch of the next item of the catch loop
  errMsg,       \* message of the exception caught for the current batch
  unanswered,   \* positions of the batch the response has not answered yet
  result,       \* the SyncResult under construction
  \* history variables, written and never read by the program's steps
  hse,          \* entry id -> number of handleSyncError calls for it
  routed,       \* entry ids routed through handleSyncError in this pass
  midPass,      \* entry ids enqueued while the pass was between snapshot and return
  allSuccess,   \* no batch threw and every outcome so far was 'success'
  posted,       \* number of axios.post calls (batches transmitted) in this pass
  conflictOlder,\* tasks that got a conflict outcome with an older remote version
  pickedLocal,  \* tasks for which the resolver returned the local version
  lc,           \* the conflict outcome handled by the last step, if any
  tasks0,       \* the tasks table when the pass took its snapshot
  log,          \* the events of the pass so far: mark, call, outcome, handle
  lo,           \* the outcome handled by the last step, if any
  rc,           \* a call of a pure function: its arguments and its result
  \* the configuration, and the scenarios with more than one pass
  injected,     \* whether the SyncService was constructed with a TaskService
  other,        \* the state of a second sync() invocation while it does not run
  passes        \* number of passes that have returned (counted in SpecRetry)

dbVars == <<tasks, queue, dlq>>
passVars == <<pc, sorted, i, k, errMsg, unanswered, result>>
histVars == <<hse, routed, midPass, allSuccess, posted, conflictOlder,
              pickedLocal, lc, tasks0, log, lo>>
\* What is fixed when the services are constructed, and the two variables
\* only the scenarios with several passes write.
cfgVars == <<SYNC_BATCH_SIZE, injected, other, passes>>
vars == <<SYNC_BATCH_SIZE, tasks, queue, dlq, now, nextId, pc, sorted, i, k, errMsg, unanswered,
          result, hse, routed, midPass, allSuccess, posted,
          conflictOlder, pickedLocal, lc, tasks0, log, lo, rc, injected, other, passes>>

\* The three tables as one value, for the operators that transform them.
DB == [tasks |-> tasks, queue |-> queue, dlq |-> dlq]

\* ------------------------------------------------------------ TaskService
\* mapRowToTask: 0/1 flags become booleans, ISO strings become Dates.  The
\* object has no version key (read as undefined by inferOperationType): 0.
mapRowToTask(id, row) ==
  [ id |-> id,
    title |-> row.title,
    completed |-> row.completed # 0,
    created_at |-> ParseDate(row.created_at),
    updated_at |-> ParseDate(row.updated_at),
    is_deleted |-> row.is_deleted # 0,
    sync_status |-> row.sync_status,
    server_id |-> row.server_id,
    version |-> 0 ]

\* getTask without AND is_deleted = 0.
getTask_IgnoreDeleted(db, id) ==
  IF db.tasks[id] = NoRow THEN Null ELSE mapRowToTask(id, db.tasks[id])

\* getTask: null for a missing row and for a soft-deleted one.
getTask(db, id) ==
  IF db.tasks[id] = NoRow \/ db.tasks[id].is_deleted # 0
  THEN Null
  ELSE mapRowToTask(id, db.tasks[id])

\* The object spread {...a, ...b}.
Spread(a, b) ==
  [f \in (DOMAIN a) \cup (DOMAIN b) |-> IF f \in DOMAIN b THEN b[f] ELSE a[f]]

\* addToSyncQueue: INSERT a row with retry_count 0 and no error message.  Of
\* the task object stored in the data column the model keeps the payload
\* fields; no step of the engine reads the column, it is only copied to the
\* dead-letter row and sent to the remote.
JsonData(data) ==
  [ title |-> data.title, completed |-> data.completed, is_deleted |-> data.is_deleted ]

addToSyncQueue(db, entryId, taskId, operation, data, t) ==
  [db EXCEPT !.queue = Append(@,
     [ id |-> entryId,
       task_id |-> taskId,
       operation |-> operation,
       data |-> JsonData(data),
       created_at |-> ToISOString(t),
       retry_count |-> 0,
       error_message |-> NoError ])]

\* createTask: INSERT the row, then enqueue a 'create'.
createTask(db, id, taskData, entryId, t) ==
  LET task == [ id |-> id,
                title |-> taskData.title,
                completed |-> FALSE,
                created_at |-> t,
                updated_at |-> t,
                is_deleted |-> FALSE,
                sync_status |-> "pending",
                server_id |-> NoServerId ]
      row == [ title |-> task.title,
               completed |-> 0,
               created_at |-> ToISOString(t),
               updated_at |-> ToISOString(t),
               is_deleted |-> 0,
               sync_status |-> "pending",
               server_id |-> NoServerId ]
  IN addToSyncQueue([db EXCEPT !.tasks[id] = row], entryId, id, "create", task, t)

\* updateTask.  The UPDATE statement has seven placeholders (six SET columns
\* and WHERE id = ?) and is run with six values: the id is not bound, SQLite
\* reads the unbound parameter as NULL, and WHERE id = NULL matches no row.
\* The table is left as it is; the 'update' entry is enqueued all the same.
updateTaskRows(ts, boundId, updated) ==
  [id \in DOMAIN ts |->
     IF ts[id] # NoRow /\ boundId = id
     THEN [ts[id] EXCEPT !.title = updated.title,
                         !.completed = IF updated.completed THEN 1 ELSE 0,
                         !.updated_at = ToISOString(updated.updated_at),
                         !.is_deleted = IF updated.is_deleted THEN 1 ELSE 0,
                         !.sync_status = updated.sync_status]
     ELSE ts[id]]

SqlNull == 0

updateTask(db, id, updates, entryId, t) ==
  LET existing == getTask(db, id)
      updated == [Spread(existing, updates) EXCEPT !.updated_at = t,
                                                     !.sync_status = "pending"]
  IN IF existing = Null
     THEN db
     ELSE addToSyncQueue([db EXCEPT !.tasks = updateTaskRows(@, SqlNull, updated)],
                         entryId, updated.id, "update", updated, t)

\* deleteTask: soft delete, then enqueue a 'delete' with the flagged payload.
deleteTask(db, id, entryId, t) ==
  LET existing == getTask(db, id)
  IN IF existing = Null
     THEN db
     ELSE addToSyncQueue(
            [db EXCEPT !.tasks[id] = [@ EXCEPT !.is_deleted = 1,
                                               !.updated_at = ToISOString(t),
                                               !.sync_status = "pending"]],
            entryId, id, "delete",
            [existing EXCEPT !.is_deleted = TRUE, !.updated_at = t], t)

\* ------------------------------------------------------------ SyncService
\* compareItems with the task comparison turned round.
compareItems_TaskDescending(a, b) ==
  IF a.task_id # b.task_id
  THEN (IF a.task_id < b.task_id THEN 1 ELSE -1)
  ELSE IF a.created_at # b.created_at
       THEN a.created_at - b.created_at
       ELSE OP_PRIORITY(a.operation) - OP_PRIORITY(b.operation)

\* compareItems with tb - ta for ta - tb.
compareItems_NewestFirst(a, b) ==
  IF a.task_id # b.task_id
  THEN (IF a.task_id < b.task_id THEN -1 ELSE 1)
  ELSE IF a.created_at # b.created_at
       THEN b.created_at - a.created_at
       ELSE OP_PRIORITY(a.operation) - OP_PRIORITY(b.operation)

\* The comparator of sorted = [...items].sort(...).
compareItems(a, b) ==
  IF a.task_id # b.task_id
  THEN (IF a.task_id < b.task_id THEN -1 ELSE 1)
  ELSE IF a.created_at # b.created_at
       THEN a.created_at - b.created_at
       ELSE OP_PRIORITY(a.operation) - OP_PRIORITY(b.operation)

\* Array.prototype.sort is stable: an item goes behind the items it does not
\* precede.
RECURSIVE InsertItem(_, _)
InsertItem(x, s) ==
  IF s = <<>> THEN <<x>>
  ELSE IF compareItems(x, Head(s)) < 0
       THEN <<x>> \o s
       ELSE <<Head(s)>> \o InsertItem(x, Tail(s))

RECURSIVE SortItems(_, _)
SortItems(s, acc) ==
  IF s = <<>> THEN acc ELSE SortItems(Tail(s), InsertItem(Head(s), acc))

\* SELECT * FROM sync_queue ORDER BY created_at ASC: rows by their ISO text,
\* rows with the same text in rowid order.
RECURSIVE InsertRow(_, _)
InsertRow(x, s) ==
  IF s = <<>> THEN <<x>>
  ELSE IF IsoLeq(Head(s).created_at, x.created_at)
       THEN <<Head(s)>> \o InsertRow(x, Tail(s))
       ELSE <<x>> \o s

RECURSIVE OrderByCreatedAt(_, _)
OrderByCreatedAt(s, acc) ==
  IF s = <<>> THEN acc ELSE OrderByCreatedAt(Tail(s), InsertRow(Head(s), acc))

\* rawItems.map(...): the row with created_at parsed into a Date.
ParseRow(row) == [row EXCEPT !.created_at = ParseDate(row.created_at)]

Snapshot(q) ==
  LET rawItems == OrderByCreatedAt(q, <<>>)
      items == [n \in 1..Len(rawItems) |-> ParseRow(rawItems[n])]
  IN SortItems(items, <<>>)

\* A slice that always starts at the first item.
Batch_FromStart(s, from, size) == SubSeq(s, 1, Min(from + size - 1, Len(s)))

\* batch = sorted.slice(i, i + SYNC_BATCH_SIZE), with i counted from 1.
Batch(s, from, size) == SubSeq(s, from, Min(from + size - 1, Len(s)))

\* taskIds = Array.from(new Set(batch.map(x => x.task_id)))
BatchTaskIds(b) == {b[n].task_id : n \in 1..Len(b)}

\* ------------------------------------------------------------- checksum
\* calculateChecksum works on the characters of its input.  A string is the
\* sequence of its UTF-16 code units, the values charCodeAt returns.
Colon == 58
Pipe == 124
MinusSign == 45
DigitZero == 48

\* Task ids are uuidv4() strings.  The checksum scenario has three of them;
\* in the other scenarios a task id stands for its uuid.
\*   21619fff-40f3-4f64-b0fe-11f9346f5556
\*   5732b885-e70f-41ee-8ce5-fb67143b1109
\*   6513270e-269e-4d37-b2a7-4de452e6b438
TaskIdText ==
  << <<50, 49, 54, 49, 57, 102, 102, 102, 45, 52, 48, 102, 51, 45, 52, 102,
       54, 52, 45, 98, 48, 102, 101, 45, 49, 49, 102, 57, 51, 52, 54, 102,
       53, 53, 53, 54>>,
     <<53, 55, 51, 50, 98, 56, 56, 53, 45, 101, 55, 48, 102, 45, 52, 49,
       101, 101, 45, 56, 99, 101, 53, 45, 102, 98, 54, 55, 49, 52, 51, 98,
       49, 49, 48, 57>>,
     <<54, 53, 49, 51, 50, 55, 48, 101, 45, 50, 54, 57, 101, 45, 52, 100,
       51, 55, 45, 98, 50, 97, 55, 45, 52, 100, 101, 52, 53, 50, 101, 54,
       98, 52, 51, 56>> >>

\* 'create', 'update', 'delete'
OperationText(op) ==
  CASE op = "create" -> <<99, 114, 101, 97, 116, 101>>
    [] op = "update" -> <<117, 112, 100, 97, 116, 101>>
    [] op = "delete" -> <<100, 101, 108, 101, 116, 101>>

\* The decimal digits of n >= 0, and its last `width` digits, zero-padded.
RECURSIVE Decimal(_)
Decimal(n) ==
  IF n < 10 THEN <<DigitZero + n>>
  ELSE Decimal(n \div 10) \o <<DigitZero + (n % 10)>>

RECURSIVE Padded(_, _)
Padded(n, width) ==
  IF width = 0 THEN <<>>
  ELSE Padded(n \div 10, width - 1) \o <<DigitZero + (n % 10)>>

\* new Date(ms).toISOString() for an instant in the first minute of the
\* epoch: '1970-01-01T00:00:' ss '.' mmm 'Z'.
IsoText(ms) ==
  <<49, 57, 55, 48, 45, 48, 49, 45, 48, 49, 84, 48, 48, 58, 48, 48, 58>>
    \o Padded(ms \div 1000, 2) \o <<46>> \o Padded(ms % 1000, 3) \o <<90>>

\* `${i.task_id}:${i.operation}:${new Date(i.created_at).toISOString()}`
ItemText(item) ==
  TaskIdText[item.task_id] \o <<Colon>> \o OperationText(item.operation)
    \o <<Colon>> \o IsoText(item.created_at)

\* items.map(...).join('|')
RECURSIVE JoinItems(_)
JoinItems(items) ==
  IF items = <<>> THEN <<>>
  ELSE IF Len(items) = 1 THEN ItemText(items[1])
  ELSE ItemText(items[1]) \o <<Pipe>> \o JoinItems(Tail(items))

\* A 32-bit integer is handled in two 16-bit halves, so that no intermediate
\* value leaves the range the checker computes in.
Word == 65536
Low(h) == h % Word
High(h) == (h \div Word) % Word
\* The signed 32-bit integer with the given halves (what `x | 0` yields).
ToInt32(high, low) ==
  IF high >= Word \div 2 THEN (high - Word) * Word + low ELSE high * Word + low

\* hash << 5: the low 32 bits of hash * 32, as a signed integer.
ShiftLeft5(h) ==
  ToInt32((High(h) * 32 + ((Low(h) * 32) \div Word)) % Word, (Low(h) * 32) % Word)

\* A variant of the loop body that shifts by 4 (hash * 15 + chr).
HashStep_Shift4(hash, chr) ==
  LET low == Low(hash) * 15 + chr
      high == High(hash) * 15 + (low \div Word)
  IN ToInt32(high % Word, low % Word)

\* hash = (hash << 5) - hash + chr; hash |= 0.  The subtraction and the
\* addition are exact in a double; `| 0` keeps the low 32 bits.
HashStep(hash, chr) ==
  LET shifted == ShiftLeft5(hash)
      low == Low(shifted) - Low(hash) + chr
      high == High(shifted) - High(hash) + (low \div Word)
  IN ToInt32(high % Word, low % Word)

\* What `hash |= 0` leaves in hash: a signed 32-bit integer.
IsInt32(h) == -2147483647 - 1 <= h /\ h <= 2147483647

\* The iterations of the loop for the characters data[a..b], in order,
\* entered with the given hash.  The range is split in two, and the hash
\* after the first half is computed before the second half is entered, so
\* that the evaluation does not nest once per character.
RECURSIVE HashRange(_, _, _, _)
HashRange(hash, data, a, b) ==
  IF a > b THEN hash
  ELSE IF a = b THEN HashStep(hash, data[a])
  ELSE LET half == HashRange(hash, data, a, (a + b) \div 2)
       IN CASE IsInt32(half) -> HashRange(half, data, (a + b) \div 2 + 1, b)

\* let hash = 0; for (let i = 0; i < data.length; i++) { ... }
HashOf(data) == HashRange(0, data, 1, Len(data))

\* Number.prototype.toString(): the decimal digits, '-' first if negative.
NumberToString(h) ==
  IF h >= 0 THEN Decimal(h)
  ELSE LET d == (10 - (h % 10)) % 10
           q == -((h + d) \div 10)
       IN <<MinusSign>> \o (IF q = 0 THEN <<>> ELSE Decimal(q)) \o <<DigitZero + d>>

calculateChecksum(items) ==
  LET data == JoinItems(items)
  IN NumberToString(HashOf(data))

\* markTasksInProgress: UPDATE tasks SET sync_status = 'in-progress' WHERE id IN (...)
markTasksInProgress(db, taskIds) ==
  [db EXCEPT !.tasks =
     [id \in DOMAIN @ |->
        IF id \in taskIds /\ @[id] # NoRow
        THEN [@[id] EXCEPT !.sync_status = "in-progress"]
        ELSE @[id]]]

\* inferOperationType
inferOperationType(task) ==
  IF task.is_deleted THEN "delete"
  ELSE IF (task.version # 0 /\ task.version <= 1) \/ task.created_at = task.updated_at
       THEN "create"
       ELSE "update"

\* resolveConflict with > for >= in the priority comparison.
resolveConflict_StrictPriority(localTask, serverTask) ==
  IF localTask.updated_at > serverTask.updated_at THEN localTask
  ELSE IF serverTask.updated_at > localTask.updated_at THEN serverTask
  ELSE IF OP_PRIORITY(inferOperationType(localTask))
            > OP_PRIORITY(inferOperationType(serverTask))
       THEN localTask
       ELSE serverTask

\* resolveConflict: last writer wins, then operation priority, then local.
resolveConflict(localTask, serverTask) ==
  IF localTask.updated_at > serverTask.updated_at THEN localTask
  ELSE IF serverTask.updated_at > localTask.updated_at THEN serverTask
  ELSE IF OP_PRIORITY(inferOperationType(localTask))
            >= OP_PRIORITY(inferOperationType(serverTask))
       THEN localTask
       ELSE serverTask

\* serverData?.server_id || null
ServerIdOf(serverData) ==
  IF serverData = NoData THEN NoServerId ELSE serverData.server_id

\* updateSyncStatus deleting the queue rows on 'failed' only.
updateSyncStatus_KeepOnSynced(db, taskId, status, serverData) ==
  LET sid == IF serverData = NoData THEN NoServerId ELSE serverData.server_id
  IN [db EXCEPT
        !.tasks = IF @[taskId] = NoRow THEN @
                  ELSE [@ EXCEPT ![taskId].sync_status = status,
                                 ![taskId].server_id =
                                    IF sid # NoServerId THEN sid ELSE @],
        !.queue = IF status = "failed"
                  THEN SelectSeq(@, LAMBDA e : e.task_id # taskId)
                  ELSE @]

\* updateSyncStatus: set the status, keep the stored server_id unless a new
\* one is given, and on 'synced' or 'failed' delete every queue row of the
\* task (DELETE FROM sync_queue WHERE task_id = ?).
updateSyncStatus(db, taskId, status, serverData) ==
  LET sid == ServerIdOf(serverData)
  IN [db EXCEPT
        !.tasks = IF @[taskId] = NoRow THEN @
                  ELSE [@ EXCEPT ![taskId].sync_status = status,
                                 ![taskId].server_id =
                                    IF sid # NoServerId THEN sid ELSE @],
        !.queue = IF status \in {"synced", "failed"}
                  THEN SelectSeq(@, LAMBDA e : e.task_id # taskId)
                  ELSE @]

\* setTaskError counting a retry on the queue rows of the task.
setTaskError_CountRetry(db, taskId) ==
  [db EXCEPT !.tasks = IF @[taskId] = NoRow THEN @
                       ELSE [@ EXCEPT ![taskId].sync_status = "error"],
             !.queue = [n \in 1..Len(@) |->
                          IF @[n].task_id = taskId
                          THEN [@[n] EXCEPT !.retry_count = @ + 1]
                          ELSE @[n]]]

\* UPDATE tasks SET sync_status = 'error' WHERE id = ?
setTaskError(db, taskId) ==
  [db EXCEPT !.tasks = IF @[taskId] = NoRow THEN @
                       ELSE [@ EXCEPT ![taskId].sync_status = "error"]]

\* The retry counter handleSyncError works with: the stored one, or the
\* snapshot's when the row is gone.
QueueRow(q, entryId) ==
  LET hits == SelectSeq(q, LAMBDA e : e.id = entryId)
  IN IF hits = <<>> THEN Null ELSE hits[1]

\* NextRetryCount without the fallback to the snapshot's counter.
NextRetryCount_RowOnly(db, item) ==
  LET retryRow == QueueRow(db.queue, item.id)
  IN (IF retryRow # Null THEN retryRow.retry_count ELSE 0) + 1

NextRetryCount(db, item) ==
  LET retryRow == QueueRow(db.queue, item.id)
  IN (IF retryRow # Null THEN retryRow.retry_count ELSE item.retry_count) + 1

\* handleSyncError without the calls of updateSyncStatus.
handleSyncError_NoStatus(db, item, message) ==
  LET retryCount == NextRetryCount(db, item)
  IN IF retryCount >= MAX_RETRY_COUNT
     THEN [db EXCEPT
             !.dlq = Append(@, [ task_id |-> item.task_id,
                                 operation |-> item.operation,
                                 data |-> item.data,
                                 error_message |-> message,
                                 entry |-> item.id ]),
             !.queue = SelectSeq(@, LAMBDA e : e.id # item.id)]
     ELSE [db EXCEPT
             !.queue = [n \in 1..Len(@) |->
                          IF @[n].id = item.id
                          THEN [@[n] EXCEPT !.retry_count = retryCount,
                                            !.error_message = message]
                          ELSE @[n]]]

\* handleSyncError archiving an entry only once its counter is past the budget.
handleSyncError_ArchiveLate(db, item, message) ==
  LET retryCount == NextRetryCount(db, item)
  IN IF retryCount > MAX_RETRY_COUNT
     THEN updateSyncStatus(
            [db EXCEPT
               !.dlq = Append(@, [ task_id |-> item.task_id,
                                   operation |-> item.operation,
                                   data |-> item.data,
                                   error_message |-> message,
                                   entry |-> item.id ]),
               !.queue = SelectSeq(@, LAMBDA e : e.id # item.id)],
            item.task_id, "failed", NoData)
     ELSE updateSyncStatus(
            [db EXCEPT
               !.queue = [n \in 1..Len(@) |->
                            IF @[n].id = item.id
                            THEN [@[n] EXCEPT !.retry_count = retryCount,
                                              !.error_message = message]
                            ELSE @[n]]],
            item.task_id, "error", NoData)

\* handleSyncError.  The dead-letter row gets a uuid of its own; entry names
\* the queue entry it was made from (a history field, not a column).
handleSyncError(db, item, message) ==
  LET retryCount == NextRetryCount(db, item)
  IN IF retryCount >= MAX_RETRY_COUNT
     THEN updateSyncStatus(
            [db EXCEPT
               !.dlq = Append(@, [ task_id |-> item.task_id,
                                   operation |-> item.operation,
                                   data |-> item.data,
                                   error_message |-> message,
                                   entry |-> item.id ]),
               !.queue = SelectSeq(@, LAMBDA e : e.id # item.id)],
            item.task_id, "failed", NoData)
     ELSE updateSyncStatus(
            [db EXCEPT
               !.queue = [n \in 1..Len(@) |->
                            IF @[n].id = item.id
                            THEN [@[n] EXCEPT !.retry_count = retryCount,
                                              !.error_message = message]
                            ELSE @[n]]],
            item.task_id, "error", NoData)

\* ------------------------------------------------------------ the remote
\* A version of a record as the remote supplies it in resolved_data.
RemoteVersions ==
  [ title : {"r"},
    completed : {FALSE},
    is_deleted : BOOLEAN,
    created_at : 0..MaxTime,
    updated_at : 0..MaxTime,
    version : 0..2,
    server_id : {NoServerId} \cup ServerIds ]

\* resolved_data of a 'success' outcome: updateSyncStatus reads its
\* server_id and nothing else.
SuccessData ==
  {NoData} \cup {r \in RemoteVersions :
                   /\ ~r.is_deleted /\ r.version = 0
                   /\ r.created_at = 0 /\ r.updated_at = 0}

\* resolved_data of a 'conflict' outcome: every updated_at, and with it every
\* operation kind (created at 0; a revision marker of 1 or none).
ConflictData ==
  {NoData} \cup {r \in RemoteVersions :
                   /\ r.created_at = 0 /\ r.version \in {0, 1}
                   /\ r.server_id = NoServerId}

\* The outcomes the remote may give for an item of task `client`.
Outcomes(client) ==
  [ client_id : {client}, status : {"success"},
    server_id : {NoServerId} \cup ServerIds, resolved_data : SuccessData ]
  \cup
  [ client_id : {client}, status : {"conflict"},
    server_id : {NoServerId}, resolved_data : ConflictData ]
  \cup
  [ client_id : {client}, status : {"error"},
    server_id : {NoServerId}, resolved_data : {NoData} ]

\* ------------------------------------------------------------------ Init
NoTasks == [id \in TaskIds |-> NoRow]
NoConflict == [kind |-> "none"]
NoCall == [kind |-> "none"]
NoOutcome == [kind |-> "none"]
NewResult == [success |-> TRUE, synced_items |-> 0, failed_items |-> 0, errors |-> <<>>]

\* A sync() invocation that has not been made: what `other` holds until a
\* second request arrives.
IdlePass ==
  [ pc |-> "idle", sorted |-> <<>>, i |-> 1, k |-> 1, errMsg |-> NoError,
    unanswered |-> {}, result |-> NewResult,
    routed |-> {}, midPass |-> {}, allSuccess |-> TRUE, posted |-> 0,
    conflictOlder |-> {}, pickedLocal |-> {}, tasks0 |-> NoTasks, log |-> <<>> ]

InitDb ==
  /\ SYNC_BATCH_SIZE \in BatchSizes
  /\ tasks = NoTasks
  /\ queue = <<>>
  /\ dlq = <<>>
  /\ now = 0
  /\ nextId = 0

InitPass ==
  /\ pc = "idle"
  /\ sorted = <<>>
  /\ i = 1
  /\ k = 1
  /\ errMsg = NoError
  /\ unanswered = {}
  /\ result = NewResult

InitHist ==
  /\ hse = [e \in EntryIds |-> 0]
  /\ routed = {}
  /\ midPass = {}
  /\ allSuccess = TRUE
  /\ posted = 0
  /\ conflictOlder = {}
  /\ pickedLocal = {}
  /\ lc = NoConflict
  /\ tasks0 = NoTasks
  /\ log = <<>>
  /\ lo = NoOutcome

\* createSyncRouter: new SyncService(db, taskService), one invocation at a time.
InitCfg ==
  /\ injected = TRUE
  /\ other = IdlePass
  /\ passes = 0

Init == InitDb /\ InitPass /\ InitHist /\ InitCfg /\ rc = NoCall

\* ------------------------------------------------------- TaskService steps
InFlight == pc \in {"mark", "send", "resp", "fail"}

SetDb(db) ==
  /\ tasks' = db.tasks
  /\ queue' = db.queue
  /\ dlq' = db.dlq

\* A TaskService call that enqueued an entry took the next uuid.
Enqueued(db) ==
  /\ nextId' = IF Len(db.queue) > Len(queue) THEN nextId + 1 ELSE nextId
  /\ midPass' = IF InFlight /\ Len(db.queue) > Len(queue)
                THEN midPass \cup {nextId + 1} ELSE midPass

CrudFrame ==
  /\ lc' = NoConflict
  /\ lo' = NoOutcome
  /\ UNCHANGED <<cfgVars, now, passVars, hse, routed, allSuccess, posted,
                 conflictOlder, pickedLocal, tasks0, log, rc>>

\* POST /tasks: the uuid of the new task is any id not in use.
CreateTask ==
  /\ nextId < MaxEntries
  /\ \E id \in TaskIds, title \in NewTitles :
       /\ tasks[id] = NoRow
       /\ LET db == createTask(DB, id, [title |-> title], nextId + 1, now)
          IN SetDb(db) /\ Enqueued(db)
  /\ CrudFrame

\* PUT /tasks/:id
UpdateTask ==
  /\ nextId < MaxEntries
  /\ \E id \in TaskIds, updates \in Edits :
       LET db == updateTask(DB, id, updates, nextId + 1, now)
       IN SetDb(db) /\ Enqueued(db)
  /\ CrudFrame

\* DELETE /tasks/:id
DeleteTask ==
  /\ nextId < MaxEntries
  /\ \E id \in TaskIds :
       LET db == deleteTask(DB, id, nextId + 1, now)
       IN SetDb(db) /\ Enqueued(db)
  /\ CrudFrame

\* Time passes.
Tick ==
  /\ now < MaxTime
  /\ now' = now + 1
  /\ lc' = NoConflict
  /\ lo' = NoOutcome
  /\ UNCHANGED <<cfgVars, dbVars, nextId, passVars, hse, routed, midPass, allSuccess,
                 posted, conflictOlder, pickedLocal, tasks0, log, rc>>

\* ------------------------------------------------------------- sync() steps
CurrentBatch == Batch(sorted, i, SYNC_BATCH_SIZE)

\* The for loop's i += SYNC_BATCH_SIZE and its test, after a batch.
NextBatch ==
  /\ i' = i + SYNC_BATCH_SIZE
  /\ pc' = IF i + SYNC_BATCH_SIZE > Len(sorted) THEN "done" ELSE "mark"
  /\ k' = 1
  /\ errMsg' = NoError
  /\ unanswered' = {}

\* sync() is called: the result is initialised, the queue is read and sorted.
SyncStart ==
  /\ pc = "idle"
  /\ sorted' = Snapshot(queue)
  /\ pc' = IF queue = <<>> THEN "done" ELSE "mark"
  /\ i' = 1
  /\ k' = 1
  /\ errMsg' = NoError
  /\ unanswered' = {}
  /\ result' = NewResult
  /\ tasks0' = tasks
  /\ routed' = {}
  /\ midPass' = {}
  /\ allSuccess' = TRUE
  /\ posted' = 0
  /\ conflictOlder' = {}
  /\ pickedLocal' = {}
  /\ log' = <<>>
  /\ lc' = NoConflict
  /\ lo' = NoOutcome
  /\ UNCHANGED <<cfgVars, dbVars, now, nextId, hse, rc>>

\* await this.markTasksInProgress(taskIds)
MarkInProgress ==
  /\ pc = "mark"
  /\ SetDb(markTasksInProgress(DB, BatchTaskIds(CurrentBatch)))
  /\ pc' = "send"
  /\ log' = Append(log, [ev |-> "mark", tasks |-> BatchTaskIds(CurrentBatch)])
  /\ lc' = NoConflict
  /\ lo' = NoOutcome
  /\ UNCHANGED <<cfgVars, now, nextId, sorted, i, k, errMsg, unanswered, result, hse,
                 routed, midPass, allSuccess, posted, conflictOlder,
                 pickedLocal, tasks0, rc>>

\* await this.processBatch(batch): the probe fails and processBatch throws,
\* or the probe succeeds and axios.post throws or returns a response.
ProcessBatch ==
  /\ pc = "send"
  /\ \E online \in BOOLEAN, postOk \in BOOLEAN :
       /\ posted' = IF online THEN posted + 1 ELSE posted
       /\ IF online /\ postOk
          THEN /\ pc' = "resp"
               /\ unanswered' = 1..Len(CurrentBatch)
               /\ errMsg' = NoError
               /\ allSuccess' = allSuccess
          ELSE /\ pc' = "fail"
               /\ unanswered' = {}
               /\ errMsg' = IF online THEN "Request failed" ELSE "Server not reachable"
               /\ allSuccess' = FALSE
       /\ log' = Append(log, [ev |-> "call", from |-> i,
                               how |-> IF ~online THEN "unreachable"
                                       ELSE IF postOk THEN "answered" ELSE "threw"])
  /\ k' = 1
  /\ lc' = NoConflict
  /\ lo' = NoOutcome
  /\ UNCHANGED <<cfgVars, dbVars, now, nextId, sorted, i, result, hse, routed, midPass,
                 conflictOlder, pickedLocal, tasks0, rc>>

\* PushError without result.failed_items++.
PushError_NoCount(res, taskId, operation, message) ==
  [res EXCEPT !.errors = Append(@, [task_id |-> taskId, operation |-> operation,
                                    error |-> message])]

\* result.failed_items++; result.errors.push({...})
PushError(res, taskId, operation, message) ==
  [res EXCEPT !.failed_items = @ + 1,
              !.errors = Append(@, [task_id |-> taskId, operation |-> operation,
                                    error |-> message])]

\* await this.taskService?.getTask(res.client_id): undefined without a
\* TaskService.
LocalTask(db, id) == IF injected THEN getTask(db, id) ELSE Null

\* The branch of the loop body an outcome takes.
OutcomeKind(db, res) ==
  IF res.status = "success" THEN "success"
  ELSE IF res.status = "conflict" /\ res.resolved_data # NoData
       THEN (IF LocalTask(db, res.client_id) # Null THEN "resolved" ELSE "missing")
       ELSE "error"

\* The body of for (const res of response.processed_items), on the tables.
\* updateTask enqueues an 'update' under a fresh uuid; updateSyncStatus
\* deletes it again before the step ends, so no uuid of EntryIds is used up.
ApplyOutcome(db, res, entryId, t) ==
  LET localTask == LocalTask(db, res.client_id)
      resolved == resolveConflict(localTask, res.resolved_data)
  IN IF res.status = "success"
     THEN updateSyncStatus(db, res.client_id, "synced", res.resolved_data)
     ELSE IF res.status = "conflict" /\ res.resolved_data # NoData
          THEN IF localTask # Null
               THEN updateSyncStatus(
                      updateTask(db, res.client_id, resolved, entryId, t),
                      res.client_id, "synced", resolved)
               ELSE setTaskError(db, res.client_id)
          ELSE setTaskError(db, res.client_id)

\* CountOutcome without result.success = false in the missing-local branch.
CountOutcome_MissingKeepsSuccess(db, res, r) ==
  IF res.status = "success"
  THEN [r EXCEPT !.synced_items = @ + 1]
  ELSE IF res.status = "conflict" /\ res.resolved_data # NoData
       THEN IF LocalTask(db, res.client_id) # Null
            THEN [r EXCEPT !.synced_items = @ + 1]
            ELSE PushError(r, res.client_id, "unknown", "Conflict: local task missing")
       ELSE [PushError(r, res.client_id, "unknown", "Unknown error")
               EXCEPT !.success = FALSE]

\* The same body, on the SyncResult.
CountOutcome(db, res, r) ==
  IF res.status = "success"
  THEN [r EXCEPT !.synced_items = @ + 1]
  ELSE IF res.status = "conflict" /\ res.resolved_data # NoData
       THEN IF LocalTask(db, res.client_id) # Null
            THEN [r EXCEPT !.synced_items = @ + 1]
            ELSE [PushError(r, res.client_id, "unknown",
                            "Conflict: local task missing") EXCEPT !.success = FALSE]
       ELSE [PushError(r, res.client_id, "unknown", "Unknown error")
               EXCEPT !.success = FALSE]

\* What a conflict outcome was about: how the remote version's updated_at
\* compares with the stored row's, the operation kinds of the two versions,
\* and the version that won ("none": the resolver was not called).
ConflictRecord(db, res) ==
  LET row == db.tasks[res.client_id]
      stored == mapRowToTask(res.client_id, row)
      remote == res.resolved_data
      localTask == LocalTask(db, res.client_id)
  IN [ kind |-> "conflict",
       cmp |-> IF remote.updated_at < stored.updated_at THEN "older"
               ELSE IF remote.updated_at > stored.updated_at THEN "newer"
               ELSE "tie",
       localOp |-> inferOperationType(stored),
       remoteOp |-> inferOperationType(remote),
       winner |-> IF localTask = Null THEN "none"
                  ELSE IF resolveConflict(localTask, remote) = localTask
                       THEN "local" ELSE "remote" ]

\* The history variable lc keeps the record of an exact tie only.
TieRecord(db, res) ==
  IF ConflictRecord(db, res).cmp = "tie" THEN ConflictRecord(db, res) ELSE NoConflict

IsConflict(db, res) ==
  /\ res.status = "conflict"
  /\ res.resolved_data # NoData
  /\ db.tasks[res.client_id] # NoRow

\* The body of for (const res of response.processed_items) for the outcome
\* res, logged as an event of the given kind.
OutcomeStep(res, event) ==
  /\ SetDb(ApplyOutcome(DB, res, nextId + 1, now))
  /\ result' = CountOutcome(DB, res, result)
  /\ allSuccess' = (allSuccess /\ res.status = "success")
  /\ lc' = IF IsConflict(DB, res) THEN TieRecord(DB, res) ELSE NoConflict
  /\ conflictOlder' =
       IF IsConflict(DB, res) /\ ConflictRecord(DB, res).cmp = "older"
       THEN conflictOlder \cup {res.client_id} ELSE conflictOlder
  /\ pickedLocal' =
       IF IsConflict(DB, res) /\ ConflictRecord(DB, res).winner = "local"
       THEN pickedLocal \cup {res.client_id} ELSE pickedLocal
  /\ log' = Append(log, [ev |-> event, client |-> res.client_id,
                          kind |-> OutcomeKind(DB, res)])
  /\ lo' = [kind |-> "outcome", client_id |-> res.client_id,
             status |-> res.status, server_id |-> res.server_id,
             hasData |-> res.resolved_data # NoData]

\* One iteration of for (const res of response.processed_items).
ProcessOutcome ==
  /\ pc = "resp"
  /\ \E p \in unanswered :
       \E res \in Outcomes(CurrentBatch[p].task_id) :
         /\ OutcomeStep(res, "outcome")
         /\ unanswered' = unanswered \ {p}
  /\ UNCHANGED <<cfgVars, now, nextId, pc, sorted, i, k, errMsg, hse, routed, midPass,
                 posted, tasks0, rc>>

\* The response is used up: the batch loop goes on.
EndResponse ==
  /\ pc = "resp"
  /\ unanswered = {}
  /\ NextBatch
  /\ lc' = NoConflict
  /\ lo' = NoOutcome
  /\ UNCHANGED <<cfgVars, dbVars, now, nextId, sorted, result, hse, routed, midPass,
                 allSuccess, posted, conflictOlder, pickedLocal, tasks0, log, rc>>

\* One iteration of the catch block's for (const item of batch); after the
\* last item result.success = false and the batch loop goes on.
HandleError ==
  /\ pc = "fail"
  /\ LET item == CurrentBatch[k]
         last == (k = Len(CurrentBatch))
         pushed == PushError(result, item.task_id, item.operation, errMsg)
     IN /\ SetDb(handleSyncError(DB, item, errMsg))
        /\ result' = IF last THEN [pushed EXCEPT !.success = FALSE] ELSE pushed
        /\ hse' = [hse EXCEPT ![item.id] = @ + 1]
        /\ routed' = routed \cup {item.id}
        /\ log' = Append(log, [ev |-> "handle", entry |-> item.id])
        /\ IF last
           THEN NextBatch
           ELSE /\ k' = k + 1
                /\ UNCHANGED <<pc, i, errMsg, unanswered>>
  /\ lc' = NoConflict
  /\ lo' = NoOutcome
  /\ UNCHANGED <<cfgVars, now, nextId, sorted, midPass, allSuccess, posted,
                 conflictOlder, pickedLocal, tasks0, rc>>

\* return result
ReturnResult ==
  /\ pc = "done"
  /\ pc' = "idle"
  /\ sorted' = <<>>
  /\ i' = 1
  /\ k' = 1
  /\ errMsg' = NoError
  /\ unanswered' = {}
  /\ result' = NewResult
  /\ routed' = {}
  /\ midPass' = {}
  /\ allSuccess' = TRUE
  /\ posted' = 0
  /\ conflictOlder' = {}
  /\ pickedLocal' = {}
  /\ log' = <<>>
  /\ lc' = NoConflict
  /\ lo' = NoOutcome
  /\ tasks0' = NoTasks
  /\ UNCHANGED <<SYNC_BATCH_SIZE, injected, other, dbVars, now, nextId, hse, rc>>

SyncReturn == ReturnResult /\ UNCHANGED passes

\* ------------------------------------------------------- specifications
Sync ==
  \/ SyncStart
  \/ MarkInProgress
  \/ ProcessBatch
  \/ ProcessOutcome
  \/ EndResponse
  \/ HandleError
  \/ SyncReturn

\* The TaskService is called at any time, also while a pass is running.
Next ==
  \/ CreateTask
  \/ UpdateTask
  \/ DeleteTask
  \/ Tick
  \/ Sync

Spec == Init /\ [][Next]_vars

\* The TaskService is called between passes only.
NextSerial ==
  \/ (pc = "idle" /\ CreateTask)
  \/ (pc = "idle" /\ UpdateTask)
  \/ (pc = "idle" /\ DeleteTask)
  \/ Tick
  \/ Sync

SpecSerial == Init /\ [][NextSerial]_vars

\* processBatch throws: the probe fails, or axios.post rejects.
ThrowingCall == ProcessBatch /\ pc' = "fail"

\* ------------------------------------------------- a hostile environment
\* The response holds no outcome for an item of the batch: the loop over
\* processed_items never comes to it.
OmitOutcome ==
  /\ pc = "resp"
  /\ \E p \in unanswered : unanswered' = unanswered \ {p}
  /\ lc' = NoConflict
  /\ lo' = NoOutcome
  /\ UNCHANGED <<cfgVars, dbVars, now, nextId, pc, sorted, i, k, errMsg, result, hse,
                 routed, midPass, allSuccess, posted, conflictOlder, pickedLocal,
                 tasks0, log, rc>>

\* task_id 'N/A' of the error record the outer catch block pushes.
NoTaskId == 0

\* The outer catch block: success = false, one record, failed_items as it is.
OuterCatch(res, message) ==
  [res EXCEPT !.success = FALSE,
              !.errors = Append(@, [task_id |-> NoTaskId, operation |-> "sync",
                                    error |-> message])]

\* A statement of the store is rejected (the promise of db.all or db.run
\* rejects), taken at the first statement of a step: the SELECT of the
\* snapshot and markTasksInProgress are outside the inner try, so the outer
\* catch block ends the pass; a statement in the loop over the outcomes is
\* inside it, so the batch goes to the inner catch block; a statement of
\* handleSyncError is in the inner catch block itself and ends the pass.
StorageException ==
  /\ pc \in {"idle", "mark", "resp", "fail"}
  /\ pc = "resp" => unanswered # {}
  /\ IF pc = "idle"
     THEN /\ result' = OuterCatch(NewResult, "SQLITE_ERROR")
          /\ log' = <<[ev |-> "storage", at |-> pc]>>
          /\ sorted' = <<>>
          /\ tasks0' = tasks
          /\ routed' = {} /\ midPass' = {} /\ posted' = 0
          /\ conflictOlder' = {} /\ pickedLocal' = {}
          /\ allSuccess' = FALSE
          /\ pc' = "done"
          /\ UNCHANGED <<i, k, errMsg, unanswered>>
     ELSE /\ log' = Append(log, [ev |-> "storage", at |-> pc])
          /\ allSuccess' = FALSE
          /\ UNCHANGED <<sorted, tasks0, routed, midPass, posted, conflictOlder,
                         pickedLocal, i>>
          /\ IF pc = "resp"
             THEN /\ pc' = "fail"
                  /\ k' = 1
                  /\ errMsg' = "SQLITE_ERROR"
                  /\ unanswered' = {}
                  /\ result' = result
             ELSE /\ pc' = "done"
                  /\ result' = OuterCatch(result, "SQLITE_ERROR")
                  /\ UNCHANGED <<k, errMsg, unanswered>>
  /\ lc' = NoConflict
  /\ lo' = NoOutcome
  /\ UNCHANGED <<cfgVars, dbVars, now, nextId, hse, rc>>

\* ------------------------------------------------------------ scenarios
\* A scenario starts from the store a sequence of TaskService calls leaves
\* behind, with time passing between them, and then runs passes only.
ScriptSteps(ids) ==
  [op : {"create", "update", "delete"}, id : ids] \cup {[op |-> "tick", id |-> 0]}

ApplyStep(st, c) ==
  LET entryId == st.nextId + 1
      db == CASE c.op = "create" ->
                   IF st.db.tasks[c.id] = NoRow
                   THEN createTask(st.db, c.id, [title |-> "a"], entryId, st.now)
                   ELSE st.db
               [] c.op = "update" ->
                   IF st.db.tasks[c.id] = NoRow THEN st.db
                   ELSE updateTask(st.db, c.id, [title |-> "b", completed |-> TRUE],
                                   entryId, st.now)
               [] c.op = "delete" ->
                   IF st.db.tasks[c.id] = NoRow THEN st.db
                   ELSE deleteTask(st.db, c.id, entryId, st.now)
               [] OTHER -> st.db
  IN [ db |-> db,
       nextId |-> IF Len(db.queue) > Len(st.db.queue) THEN entryId ELSE st.nextId,
       now |-> IF c.op = "tick" THEN st.now + 1 ELSE st.now,
       \* a call that enqueues nothing is no step of a scenario
       ok |-> st.ok /\ (c.op = "tick" \/ Len(db.queue) > Len(st.db.queue)) ]

RECURSIVE RunScript(_, _)
RunScript(st, script) ==
  IF script = <<>> THEN st
  ELSE RunScript(ApplyStep(st, Head(script)), Tail(script))

EmptyStore(ids) ==
  [ db |-> [tasks |-> [id \in ids |-> NoRow], queue |-> <<>>, dlq |-> <<>>],
    nextId |-> 0, now |-> 0, ok |-> TRUE ]

RECURSIVE ScriptsUpTo(_, _)
ScriptsUpTo(ids, n) ==
  IF n = 0 THEN {<<>>}
  ELSE ScriptsUpTo(ids, n - 1) \cup
       {Append(sc, c) : sc \in ScriptsUpTo(ids, n - 1), c \in ScriptSteps(ids)}

\* The stores the scenarios of at most `entries` enqueued entries and `ticks`
\* ticks end in.
ScriptEnds(ids, entries, ticks) ==
  {st \in {RunScript(EmptyStore(ids), sc) : sc \in ScriptsUpTo(ids, entries + ticks)} :
     st.ok /\ st.nextId <= entries /\ st.nextId >= 1 /\ st.now <= ticks}

InitScript ==
  /\ SYNC_BATCH_SIZE \in BatchSizes
  /\ \E st \in ScriptEnds(TaskIds, MaxEntries, MaxTime) :
       /\ tasks = st.db.tasks
       /\ queue = st.db.queue
       /\ dlq = st.db.dlq
       /\ now = st.now
       /\ nextId = st.nextId
  /\ InitPass /\ InitHist /\ InitCfg
  /\ rc = NoCall

\* The passes of a scenario are counted, and at most `bound` are made.
CountedReturn == ReturnResult /\ passes' = passes + 1

CountedSync(bound) ==
  \/ (passes < bound /\ SyncStart)
  \/ MarkInProgress
  \/ ProcessBatch
  \/ ProcessOutcome
  \/ EndResponse
  \/ HandleError
  \/ CountedReturn

\* One pass over the store of a scenario, with a remote that may leave items
\* unanswered and a store that may reject a statement.
NextHostile ==
  \/ CountedSync(MaxHostilePasses)
  \/ OmitOutcome
  \/ ((pc = "idle" => passes < MaxHostilePasses) /\ StorageException)

SpecHostile == InitScript /\ [][NextHostile]_vars

\* The response holds an outcome whose client_id is the task_id of no item of
\* the batch: the loop body runs for it as for any other.
ForeignOutcome ==
  /\ pc = "resp"
  /\ Cardinality({n \in 1..Len(log) : log[n].ev = "foreign"}) < MaxForeign
  /\ \E client \in TaskIds \ BatchTaskIds(CurrentBatch) :
       \E res \in Outcomes(client) : OutcomeStep(res, "foreign")
  /\ UNCHANGED <<cfgVars, now, nextId, pc, sorted, i, k, errMsg, unanswered, hse,
                 routed, midPass, posted, tasks0, rc>>

\* Passes over the store of a scenario, with a remote that answers every item
\* and may add outcomes for other tasks.
NextForeign ==
  \/ CountedSync(MaxForeignPasses)
  \/ ForeignOutcome

SpecForeign == InitScript /\ [][NextForeign]_vars

\* The retry scenario: RetryEntries entries enqueued at time 0 for any tasks,
\* the default batch size (one batch), and a transport that throws each time.
InitRetry ==
  /\ SYNC_BATCH_SIZE = DefaultBatchSize
  /\ \E st \in ScriptEnds(1..RetryEntries, RetryEntries, 0) :
       /\ st.nextId = RetryEntries
       /\ tasks = st.db.tasks
       /\ queue = st.db.queue
       /\ dlq = st.db.dlq
       /\ now = st.now
       /\ nextId = st.nextId
  /\ InitPass /\ InitCfg
  /\ hse = [e \in 1..RetryEntries |-> 0]
  /\ routed = {} /\ midPass = {} /\ allSuccess = TRUE /\ posted = 0
  /\ conflictOlder = {} /\ pickedLocal = {}
  /\ lc = NoConflict /\ tasks0 = NoTasks /\ log = <<>> /\ lo = NoOutcome
  /\ rc = NoCall

NextRetry ==
  \/ (passes < MaxPasses /\ SyncStart)
  \/ MarkInProgress
  \/ ThrowingCall
  \/ HandleError
  \/ CountedReturn

SpecRetry == InitRetry /\ [][NextRetry]_vars

\* ------------------------------------------------- overlapping invocations
\* POST /sync awaits syncService.sync() without a lock, and sync() takes none:
\* a second request is served while the first pass waits at an await.  The
\* event loop leaves one invocation at an await and resumes the other.
Switch ==
  /\ other' = [ pc |-> pc, sorted |-> sorted, i |-> i, k |-> k, errMsg |-> errMsg,
                 unanswered |-> unanswered, result |-> result,
                 routed |-> routed, midPass |-> midPass, allSuccess |-> allSuccess,
                 posted |-> posted, conflictOlder |-> conflictOlder,
                 pickedLocal |-> pickedLocal, tasks0 |-> tasks0, log |-> log ]
  /\ pc' = other.pc
  /\ sorted' = other.sorted
  /\ i' = other.i
  /\ k' = other.k
  /\ errMsg' = other.errMsg
  /\ unanswered' = other.unanswered
  /\ result' = other.result
  /\ routed' = other.routed
  /\ midPass' = other.midPass
  /\ allSuccess' = other.allSuccess
  /\ posted' = other.posted
  /\ conflictOlder' = other.conflictOlder
  /\ pickedLocal' = other.pickedLocal
  /\ tasks0' = other.tasks0
  /\ log' = other.log
  /\ lc' = NoConflict
  /\ lo' = NoOutcome
  /\ UNCHANGED <<SYNC_BATCH_SIZE, injected, passes, dbVars, now, nextId, hse, rc>>

\* The probe succeeds and axios.post rejects.
RejectedPost == ProcessBatch /\ errMsg' = "Request failed"

\* Two invocations over the store of a scenario, with the default batch size
\* and a remote that rejects every post.
InitTwo == InitScript /\ SYNC_BATCH_SIZE = DefaultBatchSize

NextTwo ==
  \/ (passes < MaxTwoPasses /\ SyncStart)
  \/ MarkInProgress
  \/ RejectedPost
  \/ HandleError
  \/ CountedReturn
  \/ Switch

SpecTwo == InitTwo /\ [][NextTwo]_vars

\* The SyncService constructed with or without a TaskService (the second
\* constructor argument is optional).
InitAny ==
  /\ InitDb /\ InitPass /\ InitHist
  /\ injected \in BOOLEAN
  /\ other = IdlePass
  /\ passes = 0
  /\ rc = NoCall

SpecAny == InitAny /\ [][NextSerial]_vars

\* resolveConflict on its own: the local argument is what mapRowToTask
\* builds, the remote one any version the remote may supply.
LocalTasks ==
  [ id : {1},
    title : NewTitles,
    completed : {FALSE},
    created_at : 0..MaxTime,
    updated_at : 0..MaxTime,
    is_deleted : BOOLEAN,
    sync_status : {"in-progress"},
    server_id : {NoServerId},
    version : {0} ]

ResolveCall(l, s) ==
  [kind |-> "call", local |-> l, server |-> s, result |-> resolveConflict(l, s)]

Resolve ==
  /\ \E l \in LocalTasks, s \in RemoteVersions : rc' = ResolveCall(l, s)
  /\ UNCHANGED <<cfgVars, dbVars, now, nextId, passVars, histVars>>

InitResolve ==
  /\ InitDb /\ InitPass /\ InitHist /\ InitCfg
  /\ SYNC_BATCH_SIZE = DefaultBatchSize
  /\ rc = NoCall

SpecResolve == InitResolve /\ [][Resolve]_vars

\* calculateChecksum on its own: the batch is any sequence of up to MaxBatch
\* queue items as the pass's snapshot holds them (created_at parsed), an
\* entry's id being its position.
ChecksumItems ==
  [ id : {0},
    task_id : 1..Len(TaskIdText),
    operation : {"create", "update", "delete"},
    data : {NoData},
    created_at : 0..MaxTime,
    retry_count : {0},
    error_message : {NoError} ]

Numbered(b) == [n \in 1..Len(b) |-> [b[n] EXCEPT !.id = n]]

ChecksumBatches ==
  {Numbered(b) : b \in UNION {[1..n -> ChecksumItems] : n \in 0..MaxBatch}}

Checksum ==
  /\ rc.kind = "batch"
  /\ rc' = [rc EXCEPT !.kind = "checksum", !.result = calculateChecksum(rc.items)]
  /\ UNCHANGED <<cfgVars, dbVars, now, nextId, passVars, histVars>>

InitChecksum ==
  /\ InitDb /\ InitPass /\ InitHist /\ InitCfg
  /\ SYNC_BATCH_SIZE = DefaultBatchSize
  /\ \E b \in ChecksumBatches : rc = [kind |-> "batch", items |-> b, result |-> <<>>]

SpecChecksum == InitChecksum /\ [][Checksum]_vars

\* ------------------------------------------------------------- properties
QueueIds(q) == {q[n].id : n \in 1..Len(q)}
QueueOf(q, taskId) == {n \in 1..Len(q) : q[n].task_id = taskId}
DlqOf(entryId) == {n \in 1..Len(dlq) : dlq[n].entry = entryId}
Payload(row) ==
  [ title |-> row.title, completed |-> row.completed, is_deleted |-> row.is_deleted ]

\* C1: after a pass in which every batch call returned and every outcome was
\* 'success', every task with an entry in the snapshot is 'synced' and has no
\* entry left in sync_queue.
C1_AllSuccessSynced ==
  (pc = "done" /\ allSuccess) =>
    \A n \in 1..Len(sorted) :
      /\ tasks[sorted[n].task_id].sync_status = "synced"
      /\ QueueOf(queue, sorted[n].task_id) = {}

\* A pass of two batches, one item each, both answered 'success', has returned.
C1_Witness ==
  /\ pc = "done" /\ allSuccess
  /\ Len(sorted) = 2 /\ SYNC_BATCH_SIZE = 1
  /\ result.synced_items = 2
  /\ sorted[1].task_id # sorted[2].task_id

\* C2: when a pass returns, an entry it routed through handleSyncError for
\* the MAX_RETRY_COUNT-th time has exactly one dead-letter record, is not in
\* sync_queue, and its task is 'failed'.
C2_ExhaustedIsFailed ==
  pc = "done" =>
    \A n \in 1..Len(sorted) :
      (sorted[n].id \in routed /\ hse[sorted[n].id] = MAX_RETRY_COUNT) =>
        /\ Cardinality(DlqOf(sorted[n].id)) = 1
        /\ QueueRow(queue, sorted[n].id) = Null
        /\ tasks[sorted[n].task_id].sync_status = "failed"

\* C3: when a pass returns, an entry it routed through handleSyncError, fewer
\* than MAX_RETRY_COUNT times in all, is in sync_queue with retry_count equal
\* to its number of failures and an error message, and its task is 'error'.
C3_RetryKept ==
  pc = "done" =>
    \A n \in 1..Len(sorted) :
      (sorted[n].id \in routed /\ hse[sorted[n].id] < MAX_RETRY_COUNT) =>
        /\ QueueRow(queue, sorted[n].id) # Null
        /\ QueueRow(queue, sorted[n].id).retry_count = hse[sorted[n].id]
        /\ QueueRow(queue, sorted[n].id).error_message # NoError
        /\ tasks[sorted[n].task_id].sync_status = "error"

\* C4: an entry leaves sync_queue only in a step that handles an outcome of
\* the batch holding the entry and marks its task 'synced', or in a step that
\* archives that very entry in dead_letter_queue.
C4_RemovalJustified ==
  [][\A n \in 1..Len(queue) :
       queue[n].id \notin QueueIds(queue') =>
         \/ /\ pc = "resp"
            /\ queue[n].id \in QueueIds(CurrentBatch)
            /\ tasks'[queue[n].task_id].sync_status = "synced"
         \/ \E m \in 1..Len(dlq') : dlq'[m].entry = queue[n].id]_vars

\* C5: an entry enqueued by the TaskService between a pass's snapshot and its
\* return is still in sync_queue when the pass returns.
C5_MidPassKept ==
  pc = "done" => \A id \in midPass : QueueRow(queue, id) # Null

\* C6: a pass over a non-empty queue during which the connectivity probe
\* reported the remote unreachable (so that no batch was posted) returns
\* success = false with exactly one error, the connectivity error, and leaves
\* every retry_count and every sync_status as it was.
C6_FailFast ==
  (pc = "done" /\ sorted # <<>> /\ posted = 0) =>
    /\ result.success = FALSE
    /\ Len(result.errors) = 1
    /\ result.errors[1].error = "Server not reachable"
    /\ \A n \in 1..Len(sorted) :
         /\ QueueRow(queue, sorted[n].id) # Null
         /\ QueueRow(queue, sorted[n].id).retry_count = sorted[n].retry_count
    /\ \A t \in TaskIds :
         tasks[t] # NoRow => tasks[t].sync_status = tasks0[t].sync_status

\* C7: the snapshot a pass transmits is in canonical order: by task_id
\* ascending, within a task by created_at non-decreasing, and for equal
\* created_at create before update before delete.
C7_CanonicalOrder ==
  \A m \in 1..Len(sorted), n \in 1..Len(sorted) :
    m < n =>
      \/ sorted[m].task_id < sorted[n].task_id
      \/ /\ sorted[m].task_id = sorted[n].task_id
         /\ \/ sorted[m].created_at < sorted[n].created_at
            \/ /\ sorted[m].created_at = sorted[n].created_at
               /\ OP_PRIORITY(sorted[m].operation) <= OP_PRIORITY(sorted[n].operation)

\* The snapshot holds two entries in another order than they were enqueued.
C7_Witness ==
  /\ pc = "send"
  /\ Len(sorted) = 2
  /\ sorted[1].task_id < sorted[2].task_id
  /\ sorted[1].id > sorted[2].id

PlainUpdate(v) == ~v.is_deleted /\ v.created_at # v.updated_at

\* C8: resolveConflict returns one of its two arguments: the one with the
\* strictly later updated_at, and on equal updated_at the local one when both
\* are plain updates.
C8_LaterWins ==
  rc.kind = "call" =>
    /\ rc.result \in {rc.local, rc.server}
    /\ rc.local.updated_at > rc.server.updated_at => rc.result = rc.local
    /\ rc.server.updated_at > rc.local.updated_at => rc.result = rc.server
    /\ ( /\ rc.local.updated_at = rc.server.updated_at
         /\ PlainUpdate(rc.local) /\ PlainUpdate(rc.server) )
       => rc.result = rc.local

\* Two plain updates with the same updated_at were resolved.
C8_Witness ==
  /\ rc.kind = "call"
  /\ rc.local.updated_at = rc.server.updated_at
  /\ PlainUpdate(rc.local) /\ PlainUpdate(rc.server)
  /\ rc.server.version = 0
  /\ rc.result = rc.local

\* C9: for a conflict outcome whose remote version has the updated_at of the
\* stored task, the version whose operation kind has the higher priority
\* wins, the local one on equal priority - whatever the two kinds are.
C9_TieByPriority ==
  lc.kind = "conflict" =>
    lc.winner = IF OP_PRIORITY(lc.localOp) >= OP_PRIORITY(lc.remoteOp)
                THEN "local" ELSE "remote"

\* C10: when a pass returns, a task for which it received a conflict outcome
\* with a remote version older than the stored one was resolved to the local
\* version, is 'synced', has the payload it had before the pass, and has no
\* entry in sync_queue.
C10_LocalKept ==
  pc = "done" =>
    \A t \in conflictOlder :
      /\ t \in pickedLocal
      /\ tasks[t].sync_status = "synced"
      /\ Payload(tasks[t]) = Payload(tasks0[t])
      /\ QueueOf(queue, t) = {}

\* ------------------------------------------------ the events of a pass
LastEvent == IF log = <<>> THEN [ev |-> "none"] ELSE log[Len(log)]
EventsOf(kind) == {n \in 1..Len(log) : log[n].ev = kind}
HandleEvents == SelectSeq(log, LAMBDA e : e.ev = "handle")
\* The error records pushed by the catch block: the loop over the outcomes
\* pushes records with operation 'unknown'.
ItemErrors == SelectSeq(result.errors, LAMBDA e : e.operation # "unknown")
SnapshotItem(entryId) == CHOOSE x \in {sorted[n] : n \in 1..Len(sorted)} : x.id = entryId
BatchStarts == {m \in 1..Len(sorted) : (m - 1) % SYNC_BATCH_SIZE = 0}
\* log grew by one event of the given kind in this step.
Logged(kind) == Len(log') = Len(log) + 1 /\ LastEvent'.ev = kind

\* C11: once the catch block is through with a batch whose transport call
\* threw, every item of the batch was passed to handleSyncError exactly once in
\* this pass, the error records of the catch block are, one for one and in
\* order, those of the items passed to handleSyncError, failed_items counts
\* every error record, and success is false; and when the pass returns,
\* processBatch was called for every batch of the snapshot.
C11_BatchThrowRouted ==
  /\ \A c \in EventsOf("call") :
        (log[c].how # "answered" /\ (log[c].from < i \/ pc = "done")) =>
          /\ \A n \in 1..Len(Batch(sorted, log[c].from, SYNC_BATCH_SIZE)) :
                Cardinality({h \in EventsOf("handle") :
                   log[h].entry = Batch(sorted, log[c].from, SYNC_BATCH_SIZE)[n].id}) = 1
          /\ result.success = FALSE
  /\ Len(ItemErrors) = Len(HandleEvents)
  /\ \A h \in 1..Len(HandleEvents) :
        /\ ItemErrors[h].task_id = SnapshotItem(HandleEvents[h].entry).task_id
        /\ ItemErrors[h].operation = SnapshotItem(HandleEvents[h].entry).operation
  /\ result.failed_items = Len(result.errors)
  /\ pc = "done" => {log[c].from : c \in EventsOf("call")} = BatchStarts

\* A pass of two batches has returned: the call for the first threw, the
\* second was transmitted and answered.
C11_Witness ==
  /\ pc = "done" /\ Len(sorted) = 2 /\ SYNC_BATCH_SIZE = 1
  /\ \E c \in EventsOf("call") : log[c].from = 1 /\ log[c].how = "threw"
  /\ \E c \in EventsOf("call") : log[c].from = 2 /\ log[c].how = "answered"
  /\ result.failed_items = 1

\* C12: a step that handles an outcome whose status is neither 'success'
\* nor 'conflict' with resolved data sets the task 'error', adds one to
\* failed_items, appends one error record for the task, sets success false,
\* and leaves sync_queue (rows and retry counts) and dead_letter_queue as
\* they are.
C12_ExplicitError ==
  [][(/\ Logged("outcome")
      /\ lo'.status # "success"
      /\ ~(lo'.status = "conflict" /\ lo'.hasData))
     => /\ tasks'[lo'.client_id].sync_status = "error"
        /\ result'.failed_items = result.failed_items + 1
        /\ Len(result'.errors) = Len(result.errors) + 1
        /\ result'.errors[Len(result'.errors)].task_id = lo'.client_id
        /\ result'.success = FALSE
        /\ queue' = queue
        /\ dlq' = dlq]_vars

\* An explicit item error was handled for a task whose entry had failed
\* before: the entry is still queued with the retry count it had.
C12_Witness ==
  /\ lo.kind = "outcome" /\ lo.status = "error"
  /\ tasks[lo.client_id].sync_status = "error"
  /\ \E n \in 1..Len(queue) :
        queue[n].task_id = lo.client_id /\ queue[n].retry_count = 2

\* C13: a step that handles a 'conflict' outcome with resolved data for a task
\* whose local record cannot be read (the row is soft-deleted, or no
\* TaskService was injected) sets the task 'error', appends one error record,
\* adds one to failed_items, sets success false, and leaves sync_queue and
\* dead_letter_queue as they are.
C13_MissingLocal ==
  [][(/\ Logged("outcome")
      /\ lo'.status = "conflict" /\ lo'.hasData
      /\ (~injected \/ tasks[lo'.client_id].is_deleted # 0))
     => /\ tasks'[lo'.client_id].sync_status = "error"
        /\ result'.failed_items = result.failed_items + 1
        /\ Len(result'.errors) = Len(result.errors) + 1
        /\ result'.errors[Len(result'.errors)].error = "Conflict: local task missing"
        /\ result'.success = FALSE
        /\ queue' = queue
        /\ dlq' = dlq]_vars

\* A conflict outcome was handled by a SyncService without a TaskService;
\* the task's entry is still queued.
C13_Witness ==
  /\ lo.kind = "outcome" /\ lo.status = "conflict" /\ lo.hasData
  /\ ~injected
  /\ tasks[lo.client_id].is_deleted = 0
  /\ tasks[lo.client_id].sync_status = "error"
  /\ QueueOf(queue, lo.client_id) # {}

OutcomeKinds == {log[n].kind : n \in EventsOf("outcome")}

\* C14: a pass with batch size at least 2 over a snapshot of exactly a
\* 'create' entry and a later 'update' entry of one task, which received one
\* outcome, 'success', and met no storage exception, marked the task
\* 'in-progress' once, made one transport call, for the batch <<create,
\* update>>, and returns with the task 'synced' and no queue entry of it.
C14_CreateThenUpdate ==
  ( /\ pc = "done" /\ SYNC_BATCH_SIZE >= 2
    /\ Len(sorted) = 2
    /\ sorted[1].task_id = sorted[2].task_id
    /\ \E c \in 1..2 : \E u \in 1..2 :
          /\ sorted[c].operation = "create" /\ sorted[u].operation = "update"
          /\ sorted[c].created_at < sorted[u].created_at
    /\ Cardinality(EventsOf("outcome")) = 1
    /\ OutcomeKinds = {"success"}
    /\ EventsOf("storage") = {} )
  => /\ Cardinality({m \in EventsOf("mark") : sorted[1].task_id \in log[m].tasks}) = 1
     /\ Cardinality(EventsOf("call")) = 1
     /\ posted = 1
     /\ \A c \in EventsOf("call") :
           /\ log[c].how = "answered"
           /\ Batch(sorted, log[c].from, SYNC_BATCH_SIZE) = sorted
     /\ sorted[1].operation = "create" /\ sorted[2].operation = "update"
     /\ tasks[sorted[1].task_id].sync_status = "synced"
     /\ QueueOf(queue, sorted[1].task_id) = {}

\* The scenario has run: create at 0, update at 1, one batch, one outcome.
C14_Witness ==
  /\ pc = "done" /\ SYNC_BATCH_SIZE = 2
  /\ Len(sorted) = 2
  /\ sorted[1].operation = "create" /\ sorted[1].created_at = 0
  /\ sorted[2].operation = "update" /\ sorted[2].created_at = 1
  /\ sorted[1].task_id = sorted[2].task_id
  /\ Cardinality(EventsOf("outcome")) = 1
  /\ OutcomeKinds = {"success"}
  /\ tasks[sorted[1].task_id].sync_status = "synced"

\* C16: the result a pass returns has success = true exactly when its errors
\* list is empty, and exactly when no transport call of the pass threw, no
\* conflict outcome met a missing local record, no explicit item error was
\* received and no statement of the store was rejected.
C16_SuccessIffNoFailure ==
  pc = "done" =>
    /\ result.success = (result.errors = <<>>)
    /\ result.success =
         ( /\ \A c \in EventsOf("call") : log[c].how = "answered"
           /\ OutcomeKinds \cap {"missing", "error"} = {}
           /\ EventsOf("storage") = {} )

\* A pass whose only failure was a rejected statement of markTasksInProgress
\* for its second batch has returned, unsuccessful.
C16_Witness ==
  /\ pc = "done"
  /\ result.success = FALSE
  /\ Len(result.errors) = 1
  /\ result.synced_items = 1
  /\ \E n \in EventsOf("storage") : log[n].at = "mark"
  /\ \A c \in EventsOf("call") : log[c].how = "answered"
  /\ OutcomeKinds = {"success"}

\* C15: in the retry scenario, between passes: before MAX_RETRY_COUNT passes
\* have returned every entry is in sync_queue and none is archived; from the
\* MAX_RETRY_COUNT-th pass on sync_queue is empty and every entry has exactly
\* one record in dead_letter_queue - whichever tasks the entries belong to.
C15_ThreePasses ==
  pc = "idle" =>
    IF passes < MAX_RETRY_COUNT
    THEN /\ QueueIds(queue) = 1..RetryEntries
         /\ dlq = <<>>
         /\ \A n \in 1..Len(queue) : queue[n].retry_count = passes
    ELSE /\ queue = <<>>
         /\ \A e \in 1..RetryEntries : Cardinality(DlqOf(e)) = 1

\* Three passes have returned over entries that all belong to one task.
C15_Witness ==
  /\ pc = "idle" /\ passes = MAX_RETRY_COUNT
  /\ Len(dlq) = RetryEntries
  /\ \A n \in 1..Len(dlq) : dlq[n].task_id = dlq[1].task_id

\* The task a failure handled in this step concerns, 0 when the step
\* handled none: the task of the item passed to handleSyncError, or the task
\* of an outcome of the missing-local or explicit-error branch.
FailedTask ==
  IF Logged("handle") THEN SnapshotItem(LastEvent'.entry).task_id
  ELSE IF Logged("outcome") /\ LastEvent'.kind \in {"missing", "error"}
       THEN LastEvent'.client
       ELSE 0

FailureEvents ==
  {n \in 1..Len(log) :
     \/ log[n].ev = "handle"
     \/ (log[n].ev = "outcome" /\ log[n].kind \in {"missing", "error"})}

\* C17: a step that handles a failure (an item passed to handleSyncError,
\* archived or not; an explicit item error; a conflict with a missing local
\* record) appends exactly one error record, for the task concerned, writes a
\* failure status to that task and changes the sync_status of no other task;
\* and the result always holds as many error records as failures were handled.
C17_OneRecordOneTask ==
  [][/\ FailedTask # 0 =>
          /\ Len(result'.errors) = Len(result.errors) + 1
          /\ result'.errors[Len(result'.errors)].task_id = FailedTask
          /\ tasks'[FailedTask].sync_status \in {"error", "failed"}
          /\ \A t \in TaskIds \ {FailedTask} :
                tasks[t] # NoRow => tasks'[t].sync_status = tasks[t].sync_status
     /\ Len(result'.errors) = Cardinality(FailureEvents')]_vars

\* An item was archived in a pass that had already handled another failure:
\* two error records, the two tasks carry different failure statuses.
C17_Witness ==
  /\ Len(result.errors) = 2
  /\ LastEvent.ev = "handle"
  /\ Cardinality(DlqOf(LastEvent.entry)) = 1
  /\ \E t \in TaskIds : tasks[t] # NoRow /\ tasks[t].sync_status = "failed"
  /\ \E t \in TaskIds : tasks[t] # NoRow /\ tasks[t].sync_status = "error"

\* C18: a step that handles a 'success' outcome leaves the task with the
\* server_id of the outcome when the outcome carries one, and with the
\* server_id it had when the outcome carries none.
C18_ServerIdPersisted ==
  [][(Logged("outcome") /\ lo'.status = "success")
     => tasks'[lo'.client_id].server_id =
          IF lo'.server_id # NoServerId
          THEN lo'.server_id
          ELSE tasks[lo'.client_id].server_id]_vars

\* The entries of the batches an invocation has posted.
Transmitted(callLog, snapshot) ==
  UNION { {Batch(snapshot, callLog[n].from, SYNC_BATCH_SIZE)[m].id :
             m \in 1..Len(Batch(snapshot, callLog[n].from, SYNC_BATCH_SIZE))} :
          n \in {c \in 1..Len(callLog) :
                   callLog[c].ev = "call" /\ callLog[c].how # "unreachable"} }

\* C19: no two invocations of sync() are in flight at once, no entry is
\* transmitted by two invocations that overlap, and no entry has two records
\* in dead_letter_queue.
C19_OnePassAtATime ==
  /\ ~(pc \in {"mark", "send", "resp", "fail"}
        /\ other.pc \in {"mark", "send", "resp", "fail"})
  /\ Transmitted(log, sorted) \cap Transmitted(other.log, other.sorted) = {}
  /\ \A n \in 1..Len(dlq) : Cardinality(DlqOf(dlq[n].entry)) = 1

\* The fold the checksum is specified as: hash = hash * 31 + charCode,
\* wrapped to 32 bits signed, over the characters of data in order.
Times31(hash, chr) ==
  LET low == Low(hash) * 31 + chr
      high == High(hash) * 31 + (low \div Word)
  IN ToInt32(high % Word, low % Word)

RECURSIVE RollingRange(_, _, _, _)
RollingRange(hash, data, a, b) ==
  IF a > b THEN hash
  ELSE IF a = b THEN Times31(hash, data[a])
  ELSE LET half == RollingRange(hash, data, a, (a + b) \div 2)
       IN CASE IsInt32(half) -> RollingRange(half, data, (a + b) \div 2 + 1, b)

RollingHash(data) == RollingRange(0, data, 1, Len(data))

Triple(item) == <<item.task_id, item.operation, item.created_at>>
Swap(s, p, q) ==
  [n \in 1..Len(s) |-> IF n = p THEN s[q] ELSE IF n = q THEN s[p] ELSE s[n]]
\* The same mutations enqueued again and retried: other entry ids, other
\* retry counts, the same triples.
Requeued(s) ==
  [n \in 1..Len(s) |->
     [s[n] EXCEPT !.id = @ + Len(s), !.retry_count = 1 - @]]
ItemHash(item) == HashOf(ItemText(item))
\* Two 32-bit integers that agree in their low 31 bits.
SameLow31(a, b) ==
  /\ Low(a) = Low(b)
  /\ High(a) % (Word \div 2) = High(b) % (Word \div 2)
ValueIsRollingHash ==
  /\ rc.result = NumberToString(RollingHash(JoinItems(rc.items)))
  /\ calculateChecksum(Requeued(rc.items)) = rc.result

\* C20, as stated: the checksum is the decimal string of the 32-bit wrap of
\* hash * 31 + charCode over the joined item strings, a function of the
\* batch's triples, and swapping two items with different triples always
\* changes it.
C20_SwapAlwaysChanges ==
  rc.kind = "checksum" =>
    /\ ValueIsRollingHash
    /\ \A p, q \in 1..Len(rc.items) :
         Triple(rc.items[p]) # Triple(rc.items[q])
           => calculateChecksum(Swap(rc.items, p, q)) # rc.result

\* C20, amended: the checksum is the decimal string of the 32-bit wrap of
\* hash * 31 + charCode over the joined item strings, a function of the
\* batch's triples, and swapping two neighbouring items changes it exactly
\* when the hashes of the two items' own strings differ in their low 31 bits.
C20_Checksum ==
  rc.kind = "checksum" =>
    /\ ValueIsRollingHash
    /\ \A p \in 1..(Len(rc.items) - 1) :
         (calculateChecksum(Swap(rc.items, p, p + 1)) # rc.result)
           <=> ~SameLow31(ItemHash(rc.items[p]), ItemHash(rc.items[p + 1]))

\* The checksum of a batch of two 'create' items of different tasks has been
\* computed as '-364138532', and it is also the checksum of the two items in
\* the other order.
C20_Witness ==
  /\ rc.kind = "checksum"
  /\ Len(rc.items) = 2
  /\ rc.items[1].task_id = 1 /\ rc.items[2].task_id = 2
  /\ rc.items[1].operation = "create" /\ rc.items[2].operation = "create"
  /\ rc.items[1].created_at = 0 /\ rc.items[2].created_at = 0
  /\ rc.result = <<MinusSign, 51, 54, 52, 49, 51, 56, 53, 51, 50>>
  /\ calculateChecksum(Swap(rc.items, 1, 2)) = rc.result

\* ------------------------------------------------ the batches of a pass
Marks == EventsOf("mark")
\* The position in log of the n-th 'mark' event.
NthMark(n) == CHOOSE m \in Marks : Cardinality({x \in Marks : x <= m}) = n
\* The n-th batch of the snapshot, and the number of batches.
BatchNo(n) == Batch(sorted, 1 + (n - 1) * SYNC_BATCH_SIZE, SYNC_BATCH_SIZE)
BatchCount == ((Len(sorted) + SYNC_BATCH_SIZE) - 1) \div SYNC_BATCH_SIZE
\* The events after the n-th 'mark' event, up to the next one.
Round(n) ==
  SubSeq(log, NthMark(n) + 1,
         IF n < Cardinality(Marks) THEN NthMark(n + 1) - 1 ELSE Len(log))
\* The n-th batch is through: one transport call for it, and then an outcome
\* applied for each of its items, or each item passed to handleSyncError.
Complete(n) ==
  LET r == Round(n)
      b == BatchNo(n)
  IN /\ Len(r) = 1 + Len(b)
     /\ r[1].ev = "call" /\ r[1].from = 1 + (n - 1) * SYNC_BATCH_SIZE
     /\ \A m \in 2..Len(r) :
          IF r[1].how = "answered"
          THEN r[m].ev = "outcome" /\ r[m].client \in BatchTaskIds(b)
          ELSE r[m].ev = "handle" /\ r[m].entry = b[m - 1].id
\* The batches an entry of the snapshot was handed to the transport in.
CalledWith(entryId) ==
  {c \in EventsOf("call") :
     \E m \in 1..Len(Batch(sorted, log[c].from, SYNC_BATCH_SIZE)) :
       Batch(sorted, log[c].from, SYNC_BATCH_SIZE)[m].id = entryId}

\* C21: the batches of a pass are consecutive slices of the ordered snapshot,
\* each of SYNC_BATCH_SIZE entries but for the last, and together they are the
\* snapshot; the tasks of a batch are marked 'in-progress' only when the batch
\* before it is through (its transport call made, and every outcome applied
\* or every item passed to handleSyncError); no entry is handed to the
\* transport twice, and when the pass returns every entry was handed to it
\* in exactly one batch.
C21_BatchesInTurn ==
  /\ Cardinality(Marks) <= BatchCount
  /\ \A p \in 1..Len(sorted) :
       BatchNo(((p - 1) \div SYNC_BATCH_SIZE) + 1)[((p - 1) % SYNC_BATCH_SIZE) + 1] = sorted[p]
  /\ \A n \in 1..BatchCount :
       Len(BatchNo(n)) = IF n < BatchCount THEN SYNC_BATCH_SIZE
                         ELSE Len(sorted) - (BatchCount - 1) * SYNC_BATCH_SIZE
  /\ \A n \in 1..Cardinality(Marks) :
       /\ log[NthMark(n)].tasks = BatchTaskIds(BatchNo(n))
       /\ (n < Cardinality(Marks) \/ pc = "done") => Complete(n)
  /\ \A n \in 1..Len(sorted) : Cardinality(CalledWith(sorted[n].id)) <= 1
  /\ pc = "done" =>
       /\ Cardinality(Marks) = BatchCount
       /\ \A n \in 1..Len(sorted) : Cardinality(CalledWith(sorted[n].id)) = 1

\* A pass over two entries in two batches of one has returned: the first
\* call was answered, the second threw.
C21_Witness ==
  /\ pc = "done"
  /\ SYNC_BATCH_SIZE = 1 /\ Len(sorted) = 2
  /\ Cardinality(Marks) = 2
  /\ Round(1)[1].how = "answered" /\ Round(2)[1].how = "threw"
  /\ Complete(1) /\ Complete(2)

\* C22: in every state, a task whose sync_status is 'error' has at least one
\* entry in sync_queue.
C22_ErrorHasEntry ==
  \A id \in TaskIds :
    (tasks[id] # NoRow /\ tasks[id].sync_status = "error") => QueueOf(queue, id) # {}

\* The retry counters of the rows of a queue are within the budget.
RetryInBudget(q) ==
  \A n \in 1..Len(q) : q[n].retry_count \in 0..(MAX_RETRY_COUNT - 1)
\* This step passed the entry to handleSyncError.
FailedNow(entryId) == Logged("handle") /\ LastEvent'.entry = entryId
\* What a step does to the retry counters: a new row starts at 0; a row
\* passed to handleSyncError is removed when its counter would reach
\* MAX_RETRY_COUNT and is kept with the counter one higher when not; no
\* other row's counter changes.
RetryStep ==
  /\ RetryInBudget(queue')
  /\ \A e \in QueueIds(queue') \ QueueIds(queue) : QueueRow(queue', e).retry_count = 0
  /\ \A e \in QueueIds(queue) :
       LET c == QueueRow(queue, e).retry_count
       IN IF FailedNow(e)
          THEN IF c + 1 >= MAX_RETRY_COUNT
               THEN e \notin QueueIds(queue')
               ELSE /\ e \in QueueIds(queue')
                    /\ QueueRow(queue', e).retry_count = c + 1
          ELSE e \in QueueIds(queue') => QueueRow(queue', e).retry_count = c

\* C23: in every state every row of sync_queue has a retry_count of 0, 1 or 2
\* (below MAX_RETRY_COUNT): a row is created with 0, the counter grows by one
\* when the entry is passed to handleSyncError and by no other step, and a
\* row whose counter would reach MAX_RETRY_COUNT is removed instead.
C23_RetryInBudget == RetryInBudget(queue) /\ [][RetryStep]_vars

\* An entry has been archived, and another is queued with a counter of
\* MAX_RETRY_COUNT - 1.
C23_Witness ==
  /\ Len(dlq) >= 1
  /\ \E n \in 1..Len(queue) : queue[n].retry_count = MAX_RETRY_COUNT - 1

\* The tasks marked 'in-progress' for a batch of this pass.
MarkedTasks == UNION {log[m].tasks : m \in Marks}

\* C24: when a pass returns, every task that was marked 'in-progress' for one
\* of its batches is 'synced', 'error' or 'failed', whether the transport
\* call threw or returned and whether or not the response held an outcome
\* for the task.
C24_NoneLeftInProgress ==
  pc = "done" =>
    \A id \in MarkedTasks :
      tasks[id] # NoRow => tasks[id].sync_status \in {"synced", "error", "failed"}

\* The rows of sync_queue that belong to a task.
EntriesOf(q, taskId) == SelectSeq(q, LAMBDA e : e.task_id = taskId)

\* A step of a pass that is working on a batch leaves the tasks without an
\* entry in that batch alone.
BatchFrame ==
  pc \in {"mark", "send", "resp", "fail"} =>
    \A id \in TaskIds \ BatchTaskIds(CurrentBatch) :
      /\ EntriesOf(queue', id) = EntriesOf(queue, id)
      /\ tasks[id] # NoRow =>
           /\ tasks'[id].sync_status = tasks[id].sync_status
           /\ tasks'[id].server_id = tasks[id].server_id

\* C25: a step of a pass that is working on a batch leaves the sync_status,
\* the server_id and the queue entries of every task without an entry in that
\* batch as they are, whatever client_id the outcomes of the response carry.
C25_OnlyBatchTasks == [][BatchFrame]_vars

====
